---- MODULE Spec2Model ----
(***************************************************************************)
(* A model of BlockingQueue<T, std::queue<T>> (src/BlockingQueue.h): a     *)
(* std::queue protected by a std::mutex, a condition_variable_any and an   *)
(* atomic owner register.  Every atomic access of the shared state (the    *)
(* mutex m, the register owningThread, the condition variable cv and the   *)
(* container q) is one step of the calling thread.  Three threads use one  *)
(* queue: two call any member function, the third only calls pop().        *)
(* MoveSpec adds one move construction from that queue; PrioritySpec is    *)
(* the same class over PriorityQueueWrapper<std::priority_queue<T>>.       *)
(***************************************************************************)
EXTENDS Integers, Sequences, FiniteSets, TLC

\* total number of push() calls made by all threads together
MaxPush == 2

\* threads that call every public member function
Users == {1, 2}
\* threads that only call pop()
Consumers == {3}
Threads == Users \cup Consumers

\* std::thread::id(): the id of no thread
NoThread == 0

\* the value of a T that no push supplied
NoItem == <<0, 0>>

\* the owner register of a queue that is not constructed yet
Unconstructed == -1

VARIABLES
    q,            \* Queue q: the underlying container, front first
    m,            \* std::mutex m: the set of threads that acquired and have not released it
    owningThread, \* std::atomic<std::thread::id> owningThread
    cv,           \* condition_variable_any cv: the threads blocked in cv.wait and not yet woken
    pc,           \* each thread's position in the code
    op,           \* the public member function each thread is in (or was in last)
    item,         \* the argument of the thread's push
    lockerOwns,   \* owns-flag of the unique_lock that get_lock() returned
    wasEmpty,     \* push_impl's local wasEmpty
    ret,          \* how the thread's last call ended: its bool, "item", "void" or "EmptyQueue"
    bracket,      \* history: the thread completed lock()/try_lock() and has not called unlock()
    npush,        \* history: number of push calls each thread has made
    pushed,       \* history: items inserted into q
    returned,     \* history: items handed out by pop/try_pop, in order of removal
    discarded,    \* history: items removed by clear
    newQ,         \* q of the queue move-constructed from this one
    newOwner      \* owningThread of the queue move-constructed from this one

vars == <<q, m, owningThread, cv, pc, op, item, lockerOwns, wasEmpty, ret,
          bracket, npush, pushed, returned, discarded, newQ, newOwner>>

shared == <<q, m, owningThread, cv>>
locals == <<item, lockerOwns, wasEmpty>>
history == <<bracket, npush, pushed, returned, discarded>>
created == <<newQ, newOwner>>

\* ------------------------------------------------------- helper operators
\* an emptiness test that is wrong by one
EmptyImplOffByOne == Len(q) <= 1

\* q.empty()
EmptyImpl == q = <<>>

\* a container that inserts at the front
QPushFront(s, x) == <<x>> \o s

\* q.push(item): std::queue inserts at the back
QPush(s, x) == Append(s, x)

\* q.front()
Front(s) == Head(s)

\* a q.pop() that removes nothing
QPopKeeps(s) == s

\* q.pop(): std::queue removes the front
QPop(s) == Tail(s)

\* std::less<T> on the items
Less(x, y) == x[1] < y[1] \/ (x[1] = y[1] /\ x[2] < y[2])

\* the sequence with the elements at i and j exchanged
Swap(s, i, j) == [s EXCEPT ![i] = s[j], ![j] = s[i]]

\* std::push_heap: the new last element rises while its parent is less
RECURSIVE SiftUp(_, _)
SiftUp(s, i) ==
    IF i > 1 /\ Less(s[i \div 2], s[i])
    THEN SiftUp(Swap(s, i, i \div 2), i \div 2)
    ELSE s

\* std::pop_heap: the new root sinks while its greater child is greater
RECURSIVE SiftDown(_, _)
SiftDown(s, i) ==
    LET l == 2 * i
        r == 2 * i + 1
        c == IF r <= Len(s) /\ Less(s[l], s[r]) THEN r ELSE l
    IN  IF l <= Len(s) /\ Less(s[i], s[c])
        THEN SiftDown(Swap(s, i, c), c)
        ELSE s

\* std::priority_queue::push: c.push_back(x); std::push_heap
PriorityPush(s, x) == SiftUp(Append(s, x), Len(s) + 1)

\* a front() that returns the back of the underlying vector
TopIsBack(s) == s[Len(s)]

\* PriorityQueueWrapper::front(): PriorityQueue::top(), the root of the heap
Top(s) == s[1]

\* std::priority_queue::pop: std::pop_heap; c.pop_back()
PriorityPop(s) ==
    IF Len(s) <= 1 THEN <<>>
    ELSE SiftDown(<<s[Len(s)]>> \o SubSeq(s, 2, Len(s) - 1), 1)

\* an ownership test that asks whether any thread owns the queue
OwnsLockAnyOwner(t) == owningThread # NoThread

\* owningThread.load() == std::this_thread::get_id()
OwnsLock(t) == owningThread = t

\* a mutex that is handed to whoever asks
MutexAlwaysFree == TRUE

\* m.lock() returns, and m.try_lock() succeeds, only on a mutex nobody holds
MutexFree == m = {}

\* a locker that never unlocks when it is destroyed
LeaveNoUnlock(t) == "idle"

\* the locker returned by get_lock() is destroyed: unlock() when it owns the lock
Leave(t) == IF lockerOwns[t] THEN "unlock_store" ELSE "idle"

\* try_pop() written as pop(): it runs pop_impl
ImplOfTryPopWaits(o) ==
    CASE o = "push" -> "push_impl"
      [] o = "pop" -> "pop_impl"
      [] o = "try_pop" -> "pop_impl"
      [] o = "clear" -> "clear_impl"
      [] o = "empty" -> "empty_impl"
      [] o = "move" -> "move_impl"

\* the impl method a data operation runs once it has the lock
ImplOf(o) ==
    CASE o = "push" -> "push_impl"
      [] o = "pop" -> "pop_impl"
      [] o = "try_pop" -> "try_pop_impl"
      [] o = "clear" -> "clear_impl"
      [] o = "empty" -> "empty_impl"
      [] o = "move" -> "move_impl"

\* the items whose push has been called
Called == UNION {{<<t, k>> : k \in 1..npush[t]} : t \in Threads}

\* the thread moves to p; when the call returns its locals are gone
Goto(t, p) ==
    /\ pc' = [pc EXCEPT ![t] = p]
    /\ IF p = "idle"
       THEN /\ item' = [item EXCEPT ![t] = NoItem]
            /\ lockerOwns' = [lockerOwns EXCEPT ![t] = FALSE]
            /\ wasEmpty' = [wasEmpty EXCEPT ![t] = FALSE]
       ELSE UNCHANGED locals

\* a call starts
Enter(t, o) ==
    /\ pc[t] = "idle"
    /\ op' = [op EXCEPT ![t] = o]

\* the value the call ends with
Return(t, v) == ret' = [ret EXCEPT ![t] = v]

\* a get_lock() with its test inverted: it locks only what the caller already owns
GetLockInverted(t, o) ==
    IF ~OwnsLock(t)
    THEN /\ lockerOwns' = [lockerOwns EXCEPT ![t] = FALSE]
         /\ pc' = [pc EXCEPT ![t] = ImplOf(o)]
    ELSE /\ lockerOwns' = [lockerOwns EXCEPT ![t] = TRUE]
         /\ pc' = [pc EXCEPT ![t] = "lock_m"]

\* get_lock(): a deferred lock when the caller owns the queue, else lock()
GetLock(t, o) ==
    IF OwnsLock(t)
    THEN /\ lockerOwns' = [lockerOwns EXCEPT ![t] = FALSE]
         /\ pc' = [pc EXCEPT ![t] = ImplOf(o)]
    ELSE /\ lockerOwns' = [lockerOwns EXCEPT ![t] = TRUE]
         /\ pc' = [pc EXCEPT ![t] = "lock_m"]

\* cv.notify_all() in the place of cv.notify_one()
NotifyAll == cv' = {}

\* cv.notify_one(): wakes one of the threads blocked in cv.wait, if any
NotifyOne ==
    IF cv = {} THEN cv' = cv ELSE \E w \in cv : cv' = cv \ {w}

\* ------------------------------------------------------------------ Init
Init ==
    /\ q = <<>>
    /\ m = {}
    /\ owningThread = NoThread
    /\ cv = {}
    /\ pc = [t \in Threads |-> "idle"]
    /\ op = [t \in Threads |-> "none"]
    /\ item = [t \in Threads |-> NoItem]
    /\ lockerOwns = [t \in Threads |-> FALSE]
    /\ wasEmpty = [t \in Threads |-> FALSE]
    /\ ret = [t \in Threads |-> "none"]
    /\ bracket = [t \in Threads |-> FALSE]
    /\ npush = [t \in Threads |-> 0]
    /\ pushed = {}
    /\ returned = <<>>
    /\ discarded = {}
    /\ newQ = <<>>
    /\ newOwner = Unconstructed

\* --------------------------------------------------- the public data calls
\* push(item): auto locker = get_lock();
Push(t) ==
    /\ t \in Users
    /\ Cardinality(Called) < MaxPush
    /\ Enter(t, "push")
    /\ Return(t, "none")
    /\ GetLock(t, "push")
    /\ npush' = [npush EXCEPT ![t] = @ + 1]
    /\ item' = [item EXCEPT ![t] = <<t, npush[t] + 1>>]
    /\ UNCHANGED <<shared, wasEmpty, bracket, pushed, returned, discarded, created>>

\* pop(), try_pop(), clear(), empty(): auto locker = get_lock();
DataCall(t, o) ==
    /\ Enter(t, o)
    /\ Return(t, "none")
    /\ GetLock(t, o)
    /\ UNCHANGED <<shared, item, wasEmpty, history, created>>

Pop(t) == DataCall(t, "pop")

TryPop(t) == t \in Users /\ DataCall(t, "try_pop")

Clear(t) == t \in Users /\ DataCall(t, "clear")

Empty(t) == t \in Users /\ DataCall(t, "empty")

\* ------------------------------------------------------- the lock surface
\* the user calls lock()
Lock(t) ==
    /\ t \in Users
    /\ ~bracket[t]
    /\ Enter(t, "lock")
    /\ Return(t, "none")
    /\ pc' = [pc EXCEPT ![t] = "lock_m"]
    /\ UNCHANGED <<shared, locals, history, created>>

\* lock(), called by the user or by get_lock's unique_lock: m.lock()
LockMutex(t) ==
    /\ pc[t] = "lock_m"
    /\ MutexFree
    /\ m' = m \cup {t}
    /\ pc' = [pc EXCEPT ![t] = "lock_store"]
    /\ UNCHANGED <<q, owningThread, cv, op, locals, ret, history, created>>

\* lock(): owningThread.store(std::this_thread::get_id())
LockStore(t) ==
    /\ pc[t] = "lock_store"
    /\ owningThread' = t
    /\ IF op[t] = "lock"
       THEN /\ Goto(t, "idle")
            /\ Return(t, "void")
            /\ bracket' = [bracket EXCEPT ![t] = TRUE]
       ELSE /\ Goto(t, ImplOf(op[t]))
            /\ UNCHANGED <<ret, bracket>>
    /\ UNCHANGED <<q, m, cv, op, npush, pushed, returned, discarded, created>>

\* the user calls try_lock(): if (m.try_lock()) ... return false;
TryLock(t) ==
    /\ t \in Users
    /\ ~bracket[t]
    /\ Enter(t, "try_lock")
    /\ IF MutexFree
       THEN /\ m' = m \cup {t}
            /\ pc' = [pc EXCEPT ![t] = "try_lock_store"]
            /\ Return(t, "none")
       ELSE /\ Return(t, "false")
            /\ UNCHANGED <<m, pc>>
    /\ UNCHANGED <<q, owningThread, cv, locals, history, created>>

\* a try_lock() that forgets to record the owner
TryLockStoreNoOwner(t) ==
    /\ pc[t] = "try_lock_store"
    /\ Return(t, "true")
    /\ bracket' = [bracket EXCEPT ![t] = TRUE]
    /\ Goto(t, "idle")
    /\ UNCHANGED <<shared, op, npush, pushed, returned, discarded, created>>

\* try_lock(): owningThread.store(std::this_thread::get_id()); return true;
TryLockStore(t) ==
    /\ pc[t] = "try_lock_store"
    /\ owningThread' = t
    /\ Return(t, "true")
    /\ bracket' = [bracket EXCEPT ![t] = TRUE]
    /\ Goto(t, "idle")
    /\ UNCHANGED <<q, m, cv, op, npush, pushed, returned, discarded, created>>

\* the user calls unlock(), as the contract demands only inside its own bracket:
\* owningThread.store(std::thread::id())
Unlock(t) ==
    /\ t \in Users
    /\ bracket[t]
    /\ Enter(t, "unlock")
    /\ Return(t, "none")
    /\ owningThread' = NoThread
    /\ bracket' = [bracket EXCEPT ![t] = FALSE]
    /\ pc' = [pc EXCEPT ![t] = "unlock_m"]
    /\ UNCHANGED <<q, m, cv, locals, npush, pushed, returned, discarded, created>>

\* an unlock() that leaves the caller's id in the register
UnlockStoreKeepsOwner(t) ==
    /\ pc[t] = "unlock_store"
    /\ pc' = [pc EXCEPT ![t] = "unlock_m"]
    /\ UNCHANGED <<shared, op, locals, ret, history, created>>

\* unlock() called by the destructor of get_lock's unique_lock:
\* owningThread.store(std::thread::id())
UnlockStore(t) ==
    /\ pc[t] = "unlock_store"
    /\ owningThread' = NoThread
    /\ pc' = [pc EXCEPT ![t] = "unlock_m"]
    /\ UNCHANGED <<q, m, cv, op, locals, ret, history, created>>

\* unlock(): m.unlock(); the call returns (an exception has left try_pop already)
UnlockMutex(t) ==
    /\ pc[t] = "unlock_m"
    /\ m' = m \ {t}
    /\ Goto(t, "idle")
    /\ IF ret[t] = "none" THEN Return(t, "void") ELSE UNCHANGED ret
    /\ UNCHANGED <<q, owningThread, cv, op, history, created>>

\* the user calls owns_lock()
OwnsLockCall(t) ==
    /\ t \in Users
    /\ Enter(t, "owns_lock")
    /\ Return(t, IF OwnsLock(t) THEN "true" ELSE "false")
    /\ UNCHANGED <<shared, pc, locals, history, created>>

\* ------------------------------------------------------- the impl methods
\* push_impl: bool wasEmpty = empty_impl();
PushImpl(t) ==
    /\ pc[t] = "push_impl"
    /\ wasEmpty' = [wasEmpty EXCEPT ![t] = EmptyImpl]
    /\ pc' = [pc EXCEPT ![t] = "push_q"]
    /\ UNCHANGED <<shared, op, item, lockerOwns, ret, history, created>>

\* push_impl: q.push(item); if (wasEmpty) cv.notify_one();
PushQ(t) ==
    /\ pc[t] = "push_q"
    /\ q' = QPush(q, item[t])
    /\ IF wasEmpty[t] THEN NotifyOne ELSE cv' = cv
    /\ pushed' = pushed \cup {item[t]}
    /\ Goto(t, Leave(t))
    /\ IF Leave(t) = "idle" THEN Return(t, "void") ELSE UNCHANGED ret
    /\ UNCHANGED <<m, owningThread, op, bracket, npush, returned, discarded, created>>

\* pop_impl: cv.wait(locker, pred) is while (!pred()) cv.wait(locker);
\* then locker.release() and try_pop_impl()
PopImpl(t) ==
    /\ pc[t] = "pop_impl"
    /\ pc' = [pc EXCEPT ![t] = IF EmptyImpl THEN "wait_unlock_store" ELSE "try_pop_impl"]
    /\ UNCHANGED <<shared, op, locals, ret, history, created>>

\* a wait on the bare mutex: the register keeps the waiting thread's id
WaitUnlockStoreKeepsOwner(t) ==
    /\ pc[t] = "wait_unlock_store"
    /\ pc' = [pc EXCEPT ![t] = "wait_unlock_m"]
    /\ UNCHANGED <<shared, op, locals, ret, history, created>>

\* cv.wait(locker) releases the lock: unlock() is owningThread.store(std::thread::id())
WaitUnlockStore(t) ==
    /\ pc[t] = "wait_unlock_store"
    /\ owningThread' = NoThread
    /\ pc' = [pc EXCEPT ![t] = "wait_unlock_m"]
    /\ UNCHANGED <<q, m, cv, op, locals, ret, history, created>>

\* cv.wait(locker): m.unlock(), and the thread blocks on cv (one atomic step for
\* notify_one: condition_variable_any holds its own mutex across both)
WaitUnlockMutex(t) ==
    /\ pc[t] = "wait_unlock_m"
    /\ m' = m \ {t}
    /\ cv' = cv \cup {t}
    /\ pc' = [pc EXCEPT ![t] = "waiting"]
    /\ UNCHANGED <<q, owningThread, op, locals, ret, history, created>>

\* a thread blocked in cv.wait may wake without any notification
SpuriousWake(t) ==
    /\ pc[t] = "waiting"
    /\ t \in cv
    /\ cv' = cv \ {t}
    /\ UNCHANGED <<q, m, owningThread, pc, op, locals, ret, history, created>>

\* cv.wait(locker), woken: locker.lock() is lock(): m.lock()
WaitLockMutex(t) ==
    /\ pc[t] = "waiting"
    /\ t \notin cv
    /\ MutexFree
    /\ m' = m \cup {t}
    /\ pc' = [pc EXCEPT ![t] = "wait_lock_store"]
    /\ UNCHANGED <<q, owningThread, cv, op, locals, ret, history, created>>

\* a wait that does not test the predicate again after waking
WaitLockStoreNoRecheck(t) ==
    /\ pc[t] = "wait_lock_store"
    /\ owningThread' = t
    /\ pc' = [pc EXCEPT ![t] = "try_pop_impl"]
    /\ UNCHANGED <<q, m, cv, op, locals, ret, history, created>>

\* cv.wait(locker), woken: lock() stores the owner; back to the test of the predicate
WaitLockStore(t) ==
    /\ pc[t] = "wait_lock_store"
    /\ owningThread' = t
    /\ pc' = [pc EXCEPT ![t] = "pop_impl"]
    /\ UNCHANGED <<q, m, cv, op, locals, ret, history, created>>

\* try_pop_impl, called by try_pop() and by pop_impl (so also by clear_impl)
TryPopImpl(t) ==
    /\ pc[t] = "try_pop_impl"
    /\ IF EmptyImpl
       THEN \* throw std::out_of_range: the lockers are destroyed on the way out
            /\ Return(t, "EmptyQueue")
            /\ Goto(t, Leave(t))
            /\ UNCHANGED <<q, returned, discarded>>
       ELSE \* auto temp = std::move(q.front()); q.pop(); return temp;
            /\ q' = QPop(q)
            /\ IF op[t] = "clear"
               THEN /\ discarded' = discarded \cup {Front(q)}
                    /\ Goto(t, "clear_impl")
                    /\ UNCHANGED <<ret, returned>>
               ELSE /\ returned' = Append(returned, Front(q))
                    /\ Return(t, "item")
                    /\ Goto(t, Leave(t))
                    /\ UNCHANGED discarded
    /\ UNCHANGED <<m, owningThread, cv, op, bracket, npush, pushed, created>>

\* a clear_impl that stops one element early
ClearImplLeavesOne(t) ==
    /\ pc[t] = "clear_impl"
    /\ IF Len(q) <= 1
       THEN /\ Goto(t, Leave(t))
            /\ IF Leave(t) = "idle" THEN Return(t, "void") ELSE UNCHANGED ret
       ELSE /\ Goto(t, "pop_impl")
            /\ UNCHANGED ret
    /\ UNCHANGED <<shared, op, history, created>>

\* clear_impl: while (!empty_impl()) pop_impl();
ClearImpl(t) ==
    /\ pc[t] = "clear_impl"
    /\ IF EmptyImpl
       THEN /\ Goto(t, Leave(t))
            /\ IF Leave(t) = "idle" THEN Return(t, "void") ELSE UNCHANGED ret
       ELSE /\ Goto(t, "pop_impl")
            /\ UNCHANGED ret
    /\ UNCHANGED <<shared, op, history, created>>

\* empty_impl: return q.empty();
EmptyImplStep(t) ==
    /\ pc[t] = "empty_impl"
    /\ Return(t, IF EmptyImpl THEN "true" ELSE "false")
    /\ Goto(t, Leave(t))
    /\ UNCHANGED <<shared, op, history, created>>

\* ------------------------------------------------- the move constructor
\* a move constructor that takes no lock on the source
MoveCallNoLock(t) ==
    /\ t \in Users
    /\ newOwner = Unconstructed
    /\ Enter(t, "move")
    /\ Return(t, "none")
    /\ newOwner' = NoThread
    /\ newQ' = <<>>
    /\ lockerOwns' = [lockerOwns EXCEPT ![t] = FALSE]
    /\ pc' = [pc EXCEPT ![t] = "move_impl"]
    /\ UNCHANGED <<shared, item, wasEmpty, history>>

\* BlockingQueue(BlockingQueue&& other): the members are initialised,
\* owningThread(std::thread::id()) and an empty q; auto locker = other.get_lock();
MoveCall(t) ==
    /\ t \in Users
    /\ newOwner = Unconstructed
    /\ Enter(t, "move")
    /\ Return(t, "none")
    /\ newOwner' = NoThread
    /\ newQ' = <<>>
    /\ GetLock(t, "move")
    /\ UNCHANGED <<shared, item, wasEmpty, history>>

\* q = std::move(other.q): the new queue takes the container, the source is left
\* with the empty one; then locker is destroyed
MoveImpl(t) ==
    /\ pc[t] = "move_impl"
    /\ newQ' = q
    /\ q' = <<>>
    /\ Goto(t, Leave(t))
    /\ IF Leave(t) = "idle" THEN Return(t, "void") ELSE UNCHANGED ret
    /\ UNCHANGED <<m, owningThread, cv, op, history, newOwner>>

\* ------------------------------------------------------ the priority queue
\* push_impl of BlockingPriorityQueue: q.push(item); if (wasEmpty) cv.notify_one();
PriorityPushQ(t) ==
    /\ pc[t] = "push_q"
    /\ q' = PriorityPush(q, item[t])
    /\ IF wasEmpty[t] THEN NotifyOne ELSE cv' = cv
    /\ pushed' = pushed \cup {item[t]}
    /\ Goto(t, Leave(t))
    /\ IF Leave(t) = "idle" THEN Return(t, "void") ELSE UNCHANGED ret
    /\ UNCHANGED <<m, owningThread, op, bracket, npush, returned, discarded, created>>

\* try_pop_impl of BlockingPriorityQueue
PriorityTryPopImpl(t) ==
    /\ pc[t] = "try_pop_impl"
    /\ IF EmptyImpl
       THEN \* throw std::out_of_range
            /\ Return(t, "EmptyQueue")
            /\ Goto(t, Leave(t))
            /\ UNCHANGED <<q, returned, discarded>>
       ELSE \* auto temp = std::move(q.front()); q.pop(); return temp;
            /\ q' = PriorityPop(q)
            /\ IF op[t] = "clear"
               THEN /\ discarded' = discarded \cup {Top(q)}
                    /\ Goto(t, "clear_impl")
                    /\ UNCHANGED <<ret, returned>>
               ELSE /\ returned' = Append(returned, Top(q))
                    /\ Return(t, "item")
                    /\ Goto(t, Leave(t))
                    /\ UNCHANGED discarded
    /\ UNCHANGED <<m, owningThread, cv, op, bracket, npush, pushed, created>>

\* ------------------------------------------------------------ the system
\* the calls a thread may make when it is in no call
Call(t) ==
    \/ Push(t)
    \/ Pop(t)
    \/ TryPop(t)
    \/ Clear(t)
    \/ Empty(t)
    \/ Lock(t)
    \/ TryLock(t)
    \/ Unlock(t)
    \/ OwnsLockCall(t)

\* the steps of a call in progress, but for the spurious wake-up
Step(t) ==
    \/ LockMutex(t)
    \/ LockStore(t)
    \/ TryLockStore(t)
    \/ UnlockStore(t)
    \/ UnlockMutex(t)
    \/ PushImpl(t)
    \/ PushQ(t)
    \/ PopImpl(t)
    \/ WaitUnlockStore(t)
    \/ WaitUnlockMutex(t)
    \/ WaitLockMutex(t)
    \/ WaitLockStore(t)
    \/ TryPopImpl(t)
    \/ ClearImpl(t)
    \/ EmptyImplStep(t)

Next == \E t \in Threads : Call(t) \/ Step(t) \/ SpuriousWake(t)

Spec == Init /\ [][Next]_vars

\* The most generous scheduler: a thread inside a call that can take a step again
\* and again does take it (so no thread starves on the mutex), and a thread that
\* holds the queue in a bracket again and again ends the bracket.  Nothing obliges
\* a thread to make another call, nor a blocked thread to wake without a
\* notification.
FairSpec ==
    /\ Spec
    /\ \A t \in Threads : SF_vars(Step(t))
    /\ \A t \in Users : SF_vars(Unlock(t))

\* one queue is move-constructed from the queue while the threads push, pop,
\* try_pop, lock and unlock
MoveNext ==
    \E t \in Threads :
        \/ Push(t)
        \/ Pop(t)
        \/ TryPop(t)
        \/ Lock(t)
        \/ Unlock(t)
        \/ MoveCall(t)
        \/ LockMutex(t)
        \/ LockStore(t)
        \/ UnlockStore(t)
        \/ UnlockMutex(t)
        \/ PushImpl(t)
        \/ PushQ(t)
        \/ PopImpl(t)
        \/ WaitUnlockStore(t)
        \/ WaitUnlockMutex(t)
        \/ WaitLockMutex(t)
        \/ WaitLockStore(t)
        \/ TryPopImpl(t)
        \/ MoveImpl(t)
        \/ SpuriousWake(t)

MoveSpec == Init /\ [][MoveNext]_vars

\* the steps of a call in progress on a BlockingPriorityQueue
PriorityStep(t) ==
    \/ LockMutex(t)
    \/ LockStore(t)
    \/ TryLockStore(t)
    \/ UnlockStore(t)
    \/ UnlockMutex(t)
    \/ PushImpl(t)
    \/ PriorityPushQ(t)
    \/ PopImpl(t)
    \/ WaitUnlockStore(t)
    \/ WaitUnlockMutex(t)
    \/ WaitLockMutex(t)
    \/ WaitLockStore(t)
    \/ PriorityTryPopImpl(t)
    \/ ClearImpl(t)
    \/ EmptyImplStep(t)

PriorityNext == \E t \in Threads : Call(t) \/ PriorityStep(t) \/ SpuriousWake(t)

PrioritySpec == Init /\ [][PriorityNext]_vars

\* ------------------------------------------------------------ the claims
\* the elements of a sequence
Range(s) == {s[i] : i \in 1..Len(s)}

\* no element occurs twice in the sequence
NoDuplicates(s) == \A i, j \in 1..Len(s) : s[i] = s[j] => i = j

\* the positions at which a thread reads or writes q
StoragePcs ==
    {"push_impl", "push_q", "pop_impl", "try_pop_impl", "clear_impl", "empty_impl", "move_impl"}

\* C1: as long as no clear has removed anything, every item handed out by
\* pop/try_pop was inserted by a push before, no item is handed out twice, and
\* the items inserted are exactly the items handed out plus the items in storage.
Conservation ==
    discarded = {} =>
        /\ Range(returned) \subseteq pushed
        /\ NoDuplicates(returned \o q)
        /\ Range(returned) \cup Range(q) = pushed

\* both pushed items were handed out, one by a blocking pop of the consumer
\* and one by a user's try_pop
ConservationWitness ==
    /\ discarded = {}
    /\ Cardinality(pushed) = MaxPush
    /\ Len(returned) = MaxPush
    /\ \A t \in Threads : pc[t] = "idle"
    /\ op[3] = "pop" /\ ret[3] = "item"
    /\ op[1] = "try_pop" /\ ret[1] = "item"

MutualExclusion ==
    /\ Cardinality(m) <= 1
    /\ \A t \in Threads : pc[t] \in StoragePcs => t \in m
    /\ \A t, u \in Threads : (pc[t] \in StoragePcs /\ pc[u] \in StoragePcs) => t = u

\* thread 1 removes an item inside its own bracket while the other two threads
\* are blocked in lock() on their way to storage
MutualExclusionWitness ==
    /\ bracket[1] /\ pc[1] = "try_pop_impl" /\ ~lockerOwns[1]
    /\ pc[2] = "lock_m" /\ op[2] = "push"
    /\ pc[3] = "lock_m"

\* C4: while a thread is between its lock()/try_lock() and its unlock(), no
\* other thread is at a read or write of storage.
BulkAtomicity ==
    \A t \in Threads : bracket[t] => \A u \in Threads \ {t} : pc[u] \notin StoragePcs

\* C5: no thread stays blocked in pop() forever while storage stays non-empty.
NoLostWakeup ==
    \A t \in Threads : []<>(~(pc[t] = "waiting" /\ t \in cv /\ q # <<>>))

\* C6: owns_lock() called by a thread returns true exactly when the thread has
\* completed lock() or a successful try_lock() and has not called unlock() since,
\* and while a thread holds the lock that way no other thread is told it owns it.
OwnsLockExact ==
    \A t \in Users :
        /\ pc[t] = "idle" => (OwnsLock(t) <=> bracket[t])
        /\ (pc[t] = "idle" /\ op[t] = "owns_lock") => (ret[t] = "true" <=> bracket[t])
        /\ (bracket[t] /\ t \in m) => \A u \in Threads \ {t} : ~OwnsLock(u)

\* thread 1 asked inside its bracket and was told true, thread 2 asked meanwhile
\* and was told false
OwnsLockExactWitness ==
    /\ bracket[1] /\ pc[1] = "idle" /\ op[1] = "owns_lock" /\ ret[1] = "true"
    /\ pc[2] = "idle" /\ op[2] = "owns_lock" /\ ret[2] = "false"

\* C7: try_lock() is always ready to run; called while another thread holds the
\* mutex it returns false at once and leaves the owner register and the mutex as
\* they were; called otherwise it acquires the mutex, records the caller as owner
\* and returns true.
TryLockContract ==
    /\ [](\A t \in Users :
            /\ (pc[t] = "idle" /\ ~bracket[t]) => ENABLED TryLock(t)
            /\ pc[t] = "try_lock_store" => ENABLED TryLockStore(t))
    /\ [][\A t \in Users :
            /\ TryLock(t) =>
                  IF \E u \in Threads \ {t} : u \in m
                  THEN /\ ret'[t] = "false" /\ pc'[t] = "idle"
                       /\ owningThread' = owningThread /\ m' = m
                  ELSE /\ ret'[t] = "none" /\ pc'[t] = "try_lock_store"
                       /\ m' = {t}
            /\ (pc[t] = "try_lock_store" /\ pc'[t] # pc[t]) =>
                  /\ ret'[t] = "true" /\ pc'[t] = "idle"
                  /\ owningThread' = t /\ m' = {t}]_vars

\* thread 1 has locked and unlocked, after which thread 2's try_lock returned true
TryLockContractWitness ==
    /\ pc[1] = "idle" /\ op[1] = "unlock" /\ ret[1] = "void"
    /\ pc[2] = "idle" /\ op[2] = "try_lock" /\ ret[2] = "true"
    /\ owningThread = 2 /\ m = {2}

\* C8: try_pop() ends with EmptyQueue exactly when it finds storage empty, and
\* then leaves storage as it was; no other operation ends with EmptyQueue.
EmptyQueueOnlyFromTryPop ==
    [][\A t \in Threads :
          /\ (op[t] = "try_pop" /\ pc[t] = "try_pop_impl" /\ pc'[t] # "try_pop_impl") =>
                /\ (ret'[t] = "EmptyQueue") <=> (q = <<>>)
                /\ ret'[t] = "EmptyQueue" => q' = q
          /\ ret'[t] = "EmptyQueue" => op'[t] = "try_pop"]_vars

\* every pushed item has been handed out, and a further try_pop ended with EmptyQueue
EmptyQueueOnlyFromTryPopWitness ==
    /\ Cardinality(pushed) = MaxPush /\ Len(returned) = MaxPush /\ q = <<>>
    /\ pc[1] = "idle" /\ op[1] = "try_pop" /\ ret[1] = "EmptyQueue"

\* the positions inside cv.wait, and the test that leads there
WaitPcs == {"pop_impl", "wait_unlock_store", "wait_unlock_m", "waiting", "wait_lock_store"}

\* C9 as claimed: a thread inside try_pop() can always take its next step,
\* whatever the other threads hold or do.
TryPopNeverBlocks ==
    \A t \in Users : (op[t] = "try_pop" /\ pc[t] # "idle") => ENABLED Step(t)

\* C9 as amended: a thread inside try_pop() never waits on the condition
\* variable; it can take its next step unless it is acquiring the mutex while
\* another thread holds it.
TryPopWaitsOnlyForMutex ==
    \A t \in Users :
        (op[t] = "try_pop" /\ pc[t] # "idle") =>
            /\ t \notin cv
            /\ pc[t] \notin WaitPcs
            /\ ENABLED Step(t) <=> ~(pc[t] = "lock_m" /\ m # {})

\* thread 1 is in try_pop(), kept out by thread 2's bracket, on an empty queue
TryPopWaitsOnlyForMutexWitness ==
    /\ op[1] = "try_pop" /\ pc[1] = "lock_m"
    /\ bracket[2] /\ pc[2] = "idle" /\ m = {2}
    /\ q = <<>>

\* C10: pop() never ends with EmptyQueue; it removes only after the test of the
\* predicate found storage non-empty under the mutex, it hands out the element
\* that is at the front, it returns only with an item, and a test that finds
\* storage empty sends it (back) to wait.
PopNeverFails ==
    [][\A t \in Threads :
          /\ op'[t] = "pop" => ret'[t] # "EmptyQueue"
          /\ (op'[t] = "pop" /\ pc[t] # "try_pop_impl" /\ pc'[t] = "try_pop_impl") =>
                pc[t] = "pop_impl" /\ q # <<>> /\ t \in m
          /\ (op[t] = "pop" /\ pc[t] = "try_pop_impl" /\ pc'[t] # "try_pop_impl") =>
                /\ q # <<>> /\ t \in m
                /\ ret'[t] = "item"
                /\ returned' = Append(returned, Head(q))
                /\ q' = Tail(q)
          /\ (op[t] = "pop" /\ pc[t] = "pop_impl" /\ pc'[t] # "pop_impl" /\ q = <<>>) =>
                pc'[t] = "wait_unlock_store"
          /\ (op[t] = "pop" /\ pc[t] # "idle" /\ pc'[t] = "idle") => ret'[t] = "item"]_vars

\* the consumer was woken and has the mutex again, but storage is empty: the item
\* that was pushed went to thread 1's pop
PopNeverFailsWitness ==
    /\ op[3] = "pop" /\ pc[3] = "wait_lock_store" /\ q = <<>>
    /\ Len(returned) = 1
    /\ op[1] = "pop" /\ pc[1] = "idle" /\ ret[1] = "item"

\* the thread is inside a data operation that it called within its own bracket
InBracketCall(t) == bracket[t] /\ pc[t] # "idle"

\* C11, the part about single states: a data operation called inside the
\* caller's own bracket never goes through lock() nor unlock() on its way in and
\* out; push, try_pop, clear and empty can always take their next step; pop can
\* take its next step unless it is in cv.wait, where it has given the mutex up
\* (so that another thread can push); and a thread in lock() can take its step
\* exactly when nobody holds the mutex.
ReentrantCallsNeverLock ==
    \A t \in Threads :
        /\ InBracketCall(t) =>
              /\ ~lockerOwns[t]
              /\ pc[t] \notin {"lock_m", "lock_store", "unlock_store", "unlock_m"}
              /\ op[t] # "pop" => (pc[t] \notin (WaitPcs \ {"pop_impl"}) /\ ENABLED Step(t))
              /\ op[t] = "pop" =>
                    (ENABLED Step(t) <=> ~(pc[t] = "waiting" /\ (t \in cv \/ m # {})))
              /\ (op[t] = "pop" /\ pc[t] = "pop_impl" /\ q # <<>>) => t \in m
              /\ pc[t] = "waiting" => (t \notin m /\ ~OwnsLock(t))
        /\ pc[t] = "lock_m" => (ENABLED Step(t) <=> m = {})

\* C11: the above, and a pop() called on empty storage inside the caller's
\* bracket completes once another thread has pushed an item: it does not stay
\* blocked for ever while storage stays non-empty.
Reentrancy ==
    /\ []ReentrantCallsNeverLock
    /\ \A t \in Users :
          (bracket[t] /\ op[t] = "pop" /\ pc[t] = "waiting" /\ q # <<>>)
              ~> (pc[t] = "idle" \/ q = <<>>)

\* C12: clear() ends only with storage empty; storage that is empty stays empty
\* until a push inserts; empty() returns true exactly when it finds storage empty
\* (so an empty() that follows clear() with no push in between returns true);
\* and an item leaves storage only in a removal by a pop, a try_pop or a clear
\* that is in progress, so clear() takes nothing that is pushed after it returned.
ClearEmpties ==
    [][/\ \A t \in Users :
            /\ (op[t] = "clear" /\ pc[t] = "clear_impl"
                    /\ pc'[t] \notin {"clear_impl", "pop_impl"}) => q' = <<>>
            /\ (pc[t] = "empty_impl" /\ pc'[t] # "empty_impl") =>
                    (ret'[t] = "true" <=> q = <<>>) /\ (ret'[t] = "false" <=> q # <<>>)
       /\ (q = <<>> /\ q' # <<>>) =>
            \E u \in Users : pc[u] = "push_q" /\ pc'[u] # "push_q" /\ q' = <<item[u]>>
       /\ discarded' # discarded =>
            \E u \in Users : /\ op[u] = "clear" /\ pc[u] = "try_pop_impl"
                             /\ pc'[u] = "clear_impl"
                             /\ discarded' = discarded \cup {Head(q)}
       /\ (Len(q') < Len(q)) =>
            \E u \in Threads : /\ op[u] \in {"pop", "try_pop", "clear"}
                               /\ pc[u] = "try_pop_impl" /\ pc'[u] # "try_pop_impl"
                               /\ q' = Tail(q)]_vars

\* thread 1 alone pushed two items, popped the first, cleared the second away and
\* then saw empty() return true
ClearEmptiesWitness ==
    /\ returned = <<<<1, 1>>>> /\ discarded = {<<1, 2>>} /\ q = <<>>
    /\ pc[1] = "idle" /\ op[1] = "empty" /\ ret[1] = "true"
    /\ op[2] = "none" /\ op[3] = "none"

\* the positions at which a thread holds the mutex while the register does not
\* name it: after m.lock()/m.try_lock() and before the store, and after unlock()'s
\* store and before m.unlock()
StorePcs == {"lock_store", "try_lock_store", "wait_lock_store", "unlock_m", "wait_unlock_m"}

\* C13 as claimed: the register names a thread exactly when that thread holds
\* the mutex.
OwnerIffHolder ==
    \A t \in Threads : owningThread = t <=> t \in m

\* C13 as amended: the queue starts Unowned; the register names a thread only if
\* that thread holds the mutex, so it names at most one thread, the only holder;
\* and a thread that holds the mutex is named by the register unless it is
\* between the two steps of lock(), try_lock() or unlock().
OwnerRegister ==
    /\ owningThread = NoThread
    /\ [](/\ owningThread \in Threads \cup {NoThread}
          /\ \A t \in Threads : owningThread = t => m = {t}
          /\ \A t \in Threads : (t \in m /\ owningThread # t) => pc[t] \in StorePcs
          /\ \A t \in Threads : pc[t] \in StorePcs => (t \in m /\ owningThread = NoThread))

\* thread 1 holds the queue in a bracket and is named by the register while the
\* other two threads are blocked in lock()
OwnerRegisterWitness ==
    /\ bracket[1] /\ pc[1] = "idle" /\ owningThread = 1 /\ m = {1}
    /\ pc[2] = "lock_m" /\ pc[3] = "lock_m"

\* C14: a push inserts with the mutex held and knowing whether storage is empty;
\* when it is, the push wakes exactly one of the threads blocked in cv.wait (none
\* if none is blocked), and when it is not, the push wakes nobody; a thread
\* blocked in cv.wait leaves it only through such a push or by waking spuriously.
WakePolicy ==
    /\ [](\A t \in Users : pc[t] = "push_q" => (t \in m /\ (wasEmpty[t] <=> q = <<>>)))
    /\ [][/\ \A t \in Users :
               (pc[t] = "push_q" /\ pc'[t] # "push_q") =>
                   /\ q' = Append(q, item[t])
                   /\ IF q = <<>>
                      THEN IF cv = {} THEN cv' = {}
                           ELSE \E w \in cv : cv' = cv \ {w}
                      ELSE cv' = cv
          /\ (cv' # cv /\ cv' \subseteq cv) =>
               \/ pc' = pc /\ Cardinality(cv \ cv') = 1
               \/ \E t \in Users : pc[t] = "push_q" /\ pc'[t] # "push_q" /\ q = <<>>]_vars

\* two threads were blocked in pop(), one push has inserted into the empty queue:
\* one of them is woken and the other still blocked
WakePolicyWitness ==
    /\ pc[1] = "waiting" /\ pc[3] = "waiting" /\ Cardinality(cv) = 1
    /\ op[2] = "push" /\ pc[2] = "unlock_store" /\ q = <<<<2, 1>>>>

\* C15: when a push finds storage non-empty, no thread is blocked in cv.wait.
NoWaiterOnNonEmpty ==
    \A t \in Users : (pc[t] = "push_q" /\ ~wasEmpty[t]) => cv = {}

\* the public member functions that work on storage
DataOps == {"push", "pop", "try_pop", "clear", "empty"}

\* C16: a data operation called by a thread that does not own the queue takes the
\* lock itself and returns, normally or with EmptyQueue, with the mutex released
\* and the register not naming the caller; called by a thread that owns the queue
\* it takes no lock itself and returns with the caller holding the mutex and named
\* by the register.
LockStateRestored ==
    [][\A t \in Threads :
          /\ (pc[t] = "idle" /\ pc'[t] # "idle" /\ op'[t] \in DataOps) =>
                /\ OwnsLock(t) <=> t \in m
                /\ lockerOwns'[t] <=> ~OwnsLock(t)
          /\ (pc[t] # "idle" /\ pc'[t] = "idle" /\ op[t] \in DataOps) =>
                IF bracket[t]
                THEN ~lockerOwns[t] /\ t \in m' /\ owningThread' = t
                ELSE lockerOwns[t] /\ t \notin m' /\ owningThread' # t]_vars

\* thread 1's standalone try_pop() ended with EmptyQueue and left the mutex free
\* for thread 2, which since locked, pushed and popped inside its bracket and
\* still owns the queue
LockStateRestoredWitness ==
    /\ pc[1] = "idle" /\ op[1] = "try_pop" /\ ret[1] = "EmptyQueue"
    /\ bracket[2] /\ pc[2] = "idle" /\ op[2] = "pop" /\ ret[2] = "item"
    /\ owningThread = 2 /\ m = {2}

\* the positions of clear_impl and of the pop_impl it calls
ClearPcs == {"clear_impl", "pop_impl", "try_pop_impl"}

\* C17: from the moment clear() has the lock until it returns it holds the mutex
\* and is never in cv.wait; no step of another thread changes storage meanwhile;
\* its own steps only remove the front, one element at a time, the test in
\* pop_impl always finds storage non-empty, and it ends when storage is empty:
\* it removes exactly the items that were there when it got the lock.
ClearAtomic ==
    /\ [](\A t \in Users :
            (op[t] = "clear" /\ pc[t] # "idle") =>
                /\ pc[t] \notin (WaitPcs \ {"pop_impl"})
                /\ t \notin cv
                /\ pc[t] \in ClearPcs => t \in m
                /\ pc[t] \in {"pop_impl", "try_pop_impl"} => q # <<>>)
    /\ [][\A t \in Users :
            (op[t] = "clear" /\ pc[t] \in ClearPcs) =>
                /\ pc'[t] = pc[t] => q' = q
                /\ (pc'[t] # pc[t] /\ pc[t] = "try_pop_impl") =>
                      q' = Tail(q) /\ discarded' = discarded \cup {Head(q)}
                /\ (pc'[t] # pc[t] /\ pc[t] # "try_pop_impl") => q' = q
                /\ pc'[t] \notin ClearPcs => q = <<>>]_vars

\* thread 1 is in the middle of clearing two items, one is gone already, while
\* thread 2 and the consumer are kept out
ClearAtomicWitness ==
    /\ op[1] = "clear" /\ pc[1] = "try_pop_impl" /\ Len(q) = 1 /\ Cardinality(discarded) = 1
    /\ pc[2] = "lock_m" /\ op[2] = "try_pop"
    /\ pc[3] = "lock_m"

\* C20: with the mutex and the register changed in separate steps, the register
\* names a thread only while that thread holds the mutex; so owns_lock() and the
\* test in get_lock() are true only for the holder, and a data operation that took
\* no lock itself works on storage only inside its caller's bracket, mutex held.
NoStaleOwner ==
    \A t \in Threads :
        /\ OwnsLock(t) => t \in m
        /\ (pc[t] = "idle" /\ op[t] = "owns_lock" /\ ret[t] = "true") => t \in m
        /\ (pc[t] \in StoragePcs /\ ~lockerOwns[t]) => (t \in m /\ bracket[t])
        /\ pc[t] \in StoragePcs => t \in m

\* thread 1, inside its bracket, is about to remove the item thread 2 pushed, with
\* no lock of its own, while thread 2 and the consumer are blocked in lock()
NoStaleOwnerWitness ==
    /\ bracket[1] /\ op[1] = "pop" /\ pc[1] = "try_pop_impl" /\ ~lockerOwns[1]
    /\ owningThread = 1 /\ returned = <<>> /\ npush[2] = 1
    /\ pc[2] = "lock_m" /\ pc[3] = "lock_m"

\* C18: the move constructor reads the source's storage only while its thread
\* holds the source's mutex, is named by the source's register and no other thread
\* is at its storage; the new queue gets, in that one step, exactly the items the
\* source holds, and nothing at any other moment; its register is Unowned from
\* construction on.  A thread that owns the source goes to the transfer without
\* taking a lock and still owns the source on return; another thread takes the
\* lock, and has released it on return.
MoveConstruction ==
    /\ [](/\ newOwner \in {Unconstructed, NoThread}
          /\ newOwner = Unconstructed => newQ = <<>>
          /\ \A t \in Users :
                pc[t] = "move_impl" =>
                    /\ t \in m /\ OwnsLock(t)
                    /\ lockerOwns[t] <=> ~bracket[t]
                    /\ newQ = <<>> /\ newOwner = NoThread
                    /\ \A u \in Threads \ {t} : pc[u] \notin StoragePcs)
    /\ [][/\ \A t \in Users :
               /\ (pc[t] = "move_impl" /\ pc'[t] # "move_impl") => (newQ' = q /\ q' = <<>>)
               /\ (pc[t] = "idle" /\ pc'[t] # "idle" /\ op'[t] = "move") =>
                     /\ newOwner' = NoThread
                     /\ pc'[t] = IF bracket[t] THEN "move_impl" ELSE "lock_m"
               /\ (pc[t] # "idle" /\ pc'[t] = "idle" /\ op[t] = "move") =>
                     IF bracket[t]
                     THEN t \in m' /\ owningThread' = t
                     ELSE t \notin m' /\ owningThread' # t
          /\ newQ' # newQ => \E t \in Users : pc[t] = "move_impl" /\ pc'[t] # "move_impl"]_vars

\* thread 1 has moved two items out of the queue inside its own bracket, which it
\* still holds, while thread 2 is blocked in lock()
MoveConstructionWitness ==
    /\ op[1] = "move" /\ pc[1] = "idle" /\ ret[1] = "void" /\ bracket[1]
    /\ m = {1} /\ owningThread = 1
    /\ newQ = <<<<2, 1>>, <<1, 1>>>> /\ q = <<>> /\ newOwner = NoThread
    /\ pc[2] = "lock_m"

\* C19: on a BlockingPriorityQueue every pop() or try_pop() that returns an item
\* returns an item of storage that no item of storage exceeds, and removes that
\* item and no other, whatever the order of the pushes; a push adds its item and
\* no other.
PriorityOrder ==
    [][/\ returned' # returned =>
             /\ Len(returned') = Len(returned) + 1
             /\ LET x == returned'[Len(returned')]
                IN  /\ x \in Range(q)
                    /\ \A y \in Range(q) : ~Less(x, y)
                    /\ Range(q') = Range(q) \ {x}
                    /\ Len(q') = Len(q) - 1
                    /\ \E t \in Threads : /\ op[t] \in {"pop", "try_pop"}
                                          /\ pc[t] = "try_pop_impl" /\ ret'[t] = "item"
       /\ \A t \in Users :
             (pc[t] = "push_q" /\ pc'[t] # "push_q") =>
                 /\ Range(q') = Range(q) \cup {item[t]}
                 /\ Len(q') = Len(q) + 1
       /\ \A t \in Threads :
             (ret[t] # "item" /\ ret'[t] = "item") => returned' # returned]_vars

\* thread 1 pushed <<1, 1>> and then <<1, 2>>; thread 2 took the greater one
\* first with try_pop() and the consumer the other one with pop()
PriorityOrderWitness ==
    /\ returned = <<<<1, 2>>, <<1, 1>>>> /\ q = <<>>
    /\ op[2] = "try_pop" /\ ret[2] = "item" /\ op[3] = "pop" /\ ret[3] = "item"
    /\ pc[2] = "idle" /\ pc[3] = "idle"

====
